---- MODULE Spec2Model ----
(***************************************************************************)
(* A model of the utm-airspace-generator pipeline:                         *)
(*   grid_generator.py        projection selection, tiling, clipping       *)
(*   src/poi_generator.py     grid loading                                 *)
(*   src/flight_generator.py  POI loading, leg/obstacle conflict tests     *)
(*                                                                         *)
(* Numbers.  Python floats are modelled by exact fixed-point integers.     *)
(* A latitude or longitude handed to utm_epsg_for_latlon is a numerator    *)
(* over an explicit denominator den (value = numerator / den degrees).     *)
(* Planar coordinates are integers (metres); the geographic coordinates of *)
(* grid cells are kept in the same fixed-point unit (1/M_PER_DEG degree).  *)
(* An "EPSG:<n>" string is modelled by the integer n.                      *)
(***************************************************************************)
EXTENDS Integers, Sequences, FiniteSets, TLC

VARIABLES
    \* ---- projection selector (grid_generator._utm_epsg_for_latlon)
    crsIn,        \* the (lat, lon) the first call is made with
    crsCur,       \* the latest call: [lat, lon, id]
    crsPrev,      \* the call before it
    \* ---- grid tiler (grid_generator.py) and grid loading (poi_generator.py)
    gpc,          \* position in the grid pipeline
    boundary,     \* boundary GeoDataFrame: [cols, feats]
    bounds,       \* [north, south, west, east] handed to build_grid_from_bounds
    cell_m,       \* cell size in metres
    utm_epsg,     \* CRS chosen for the build
    grid,         \* rows of the grid GeoDataFrame
    gridCols,     \* its column names
    gerr,         \* error raised in the grid pipeline ("" = none)
    \* ---- flight generator (src/flight_generator.py)
    fpc,          \* position in main()
    poiFile,      \* the POI CSV: [exists, cols, rows]
    pois,         \* load_pois result: [merchants, customers, hubs]
    obstacles,    \* obstacle buffer GeoDataFrame: [hasOas, rows]
    count,        \* --count
    flights,      \* the list of intents built so far
    geomEvals,    \* geometric intersection tests evaluated so far
    ferr,         \* error raised by the flight generator ("" = none)
    \* ---- obstacle parser (src/obstacle_loader.py)
    ppc,          \* position in parse_dof
    dofFile,      \* the DOF text file: [exists, lines]
    dofRows,      \* the parsed rows
    perr,         \* error raised by parse_dof ("" = none)
    \* ---- obstacle preprocessing (src/obstacle_preprocess.py)
    bpc,          \* position in the preprocess / leg-test runs
    dofGeo,       \* the parsed obstacle file read by main(): [hasAgl, rows]
    buffer_m,     \* BUFFER_M of the latest run
    bufFile,      \* the written buffer file: [exists, hasOas, rows]
    berr,         \* error raised by the latest run ("" = none)
    legFlags,     \* legs of the fixed flights flagged against bufFile
    prevRun,      \* [buffer_m, legFlags] of the run before the latest
    \* ---- POI placement (src/poi_generator.py)
    qpc,          \* position in the create_pois calls
    poiGrid,      \* the loaded grid: sequence of [cell_id, centroid_lat, centroid_lon]
    poiCounts,    \* [hub, merchant, customer] counts of the latest call
    poiOut,       \* [err, rows] returned by the latest call
    poiPrev,      \* [counts, out] of the call before the latest
    globalRng,    \* state of the module-level random generator
    globalDraws   \* draws made from the module-level generator

gridVars == <<gpc, boundary, bounds, cell_m, utm_epsg, grid, gridCols, gerr>>
crsVars  == <<crsIn, crsCur, crsPrev>>
flightVars == <<fpc, poiFile, pois, obstacles, count, flights, geomEvals, ferr>>
parseVars == <<ppc, dofFile, dofRows, perr>>
bufferVars == <<bpc, dofGeo, buffer_m, bufFile, berr, legFlags, prevRun>>
placeVars == <<qpc, poiGrid, poiCounts, poiOut, poiPrev, globalRng, globalDraws>>
vars     == <<crsIn, crsCur, crsPrev,
              gpc, boundary, bounds, cell_m, utm_epsg, grid, gridCols, gerr,
              fpc, poiFile, pois, obstacles, count, flights, geomEvals, ferr,
              ppc, dofFile, dofRows, perr,
              bpc, dofGeo, buffer_m, bufFile, berr, legFlags, prevRun,
              qpc, poiGrid, poiCounts, poiOut, poiPrev, globalRng, globalDraws>>

Min(a, b) == IF a < b THEN a ELSE b
Max(a, b) == IF a > b THEN a ELSE b

(***************************************************************************)
(* Bounds of the model                                                     *)
(***************************************************************************)
LonRes      == 2    \* samples per degree of longitude in the CRS runs
MaxDeg      == 2    \* geographic bounds range over 0..MaxDeg degrees
MaxCell     == 3    \* largest cell size (metres)
MaxFeatures == 2    \* most features in a boundary file

(***************************************************************************)
(* Projection selector                                                     *)
(***************************************************************************)
\* int(math.floor((lon + 180) / 6) + 1) for lon = lonN / den
UtmZone(lonN, den) == (lonN + 180 * den) \div (6 * den) + 1

utm_epsg_lat_gt(latN, lonN, den) ==
    IF latN > 0 THEN 32600 + UtmZone(lonN, den)
                ELSE 32700 + UtmZone(lonN, den)

utm_epsg_for_latlon(latN, lonN, den) ==
    IF latN >= 0 THEN 32600 + UtmZone(lonN, den)
                 ELSE 32700 + UtmZone(lonN, den)

NoCall == [lat |-> 0, lon |-> 0, id |-> 0]
CrsCallOf(lat, lon) ==
    [lat |-> lat, lon |-> lon, id |-> utm_epsg_for_latlon(lat, lon, LonRes)]

SampleLats == {-90 * LonRes, -1, 0, 1, 90 * LonRes}
Lons       == (-180 * LonRes) .. (180 * LonRes)

\* first call with the drawn input
CrsCall ==
    /\ crsCur = NoCall
    /\ crsCur' = CrsCallOf(crsIn.lat, crsIn.lon)
    /\ UNCHANGED <<crsIn, crsPrev>>

\* a second call with the identical input
CrsCallAgain ==
    /\ crsCur # NoCall /\ crsPrev = NoCall
    /\ crsPrev' = crsCur
    /\ crsCur' = CrsCallOf(crsCur.lat, crsCur.lon)
    /\ UNCHANGED crsIn

\* a second call with the point mirrored across the equator
CrsCallMirror ==
    /\ crsCur # NoCall /\ crsPrev = NoCall
    /\ crsPrev' = crsCur
    /\ crsCur' = CrsCallOf(-crsCur.lat, crsCur.lon)
    /\ UNCHANGED crsIn

\* a second call with the other name of the antimeridian
CrsCallSeam ==
    /\ crsCur # NoCall /\ crsPrev = NoCall
    /\ crsCur.lon \in {-180 * LonRes, 180 * LonRes}
    /\ crsPrev' = crsCur
    /\ crsCur' = CrsCallOf(crsCur.lat, -crsCur.lon)
    /\ UNCHANGED crsIn

CrsIdle == crsIn = [lat |-> 0, lon |-> 0] /\ crsCur = NoCall /\ crsPrev = NoCall

(***************************************************************************)
(* Grid tiler                                                              *)
(***************************************************************************)
\* planar metres per degree under the model's projection
M_PER_DEG == 2
\* GeoDataFrame.to_crs(utm_epsg) on the bounding box, per coordinate
ToUtm(v) == v * M_PER_DEG

\* shapely box(minx, miny, maxx, maxy)
box(x, y, x2, y2) == [x |-> x, y |-> y, x2 |-> x2, y2 |-> y2]

RECURSIVE TileRowDropPartial(_, _, _, _, _)
TileRowDropPartial(x, y, maxx, maxy, c) ==
    IF x < maxx
    THEN (IF x + c <= maxx THEN <<box(x, y, x + c, Min(y + c, maxy))>> ELSE <<>>)
         \o TileRowDropPartial(x + c, y, maxx, maxy, c)
    ELSE <<>>

RECURSIVE TileRow(_, _, _, _, _)
\* the inner while loop: one row of cells starting at x
TileRow(x, y, maxx, maxy, c) ==
    IF x < maxx
    THEN LET x2 == Min(x + c, maxx)
             y2 == Min(y + c, maxy)
         IN (IF (x2 - x) > 0 /\ (y2 - y) > 0 THEN <<box(x, y, x2, y2)>> ELSE <<>>)
            \o TileRow(x + c, y, maxx, maxy, c)
    ELSE <<>>

RECURSIVE TileRows(_, _, _, _, _)
\* the outer while loop: rows starting at y
TileRows(y, minx, maxx, maxy, c) ==
    IF y < maxy
    THEN TileRow(minx, y, maxx, maxy, c) \o TileRows(y + c, minx, maxx, maxy, c)
    ELSE <<>>

\* gpd.GeoDataFrame({"cell_id": list(range(1, len(cells) + 1))}, geometry=cells)
\* (src is a history field: the identifier the cell was built with)
NumberCells(cells) ==
    [k \in 1..Len(cells) |-> [cell_id |-> k, src |-> k, geom |-> cells[k]]]

BoundsInvalidStrictOnly(north, south, west, east) ==
    ~(south <= north /\ west <= east)
\* the guard of the first raise
BoundsInvalid(north, south, west, east) ==
    ~(south < north /\ west < east)

\* build_grid_from_bounds: [err, utm_epsg, rows]
build_grid_from_bounds(north, south, west, east, c) ==
    IF BoundsInvalid(north, south, west, east)
    THEN [err |-> "ValueError: Invalid bounds", utm_epsg |-> 0, rows |-> <<>>]
    ELSE IF c <= 0
    THEN [err |-> "ValueError: Cell size", utm_epsg |-> 0, rows |-> <<>>]
    ELSE LET epsg == utm_epsg_for_latlon(south + north, west + east, 2)
             minx == ToUtm(west)
             miny == ToUtm(south)
             maxx == ToUtm(east)
             maxy == ToUtm(north)
         IN [err |-> "", utm_epsg |-> epsg,
             rows |-> NumberCells(TileRows(miny, minx, maxx, maxy, c))]

\* boundary.total_bounds in EPSG:4326: [north, south, west, east]
total_bounds(feats) ==
    LET I == 1..Len(feats)
    IN [west  |-> CHOOSE v \in {feats[i].w : i \in I} : \A i \in I : v <= feats[i].w,
        south |-> CHOOSE v \in {feats[i].s : i \in I} : \A i \in I : v <= feats[i].s,
        east  |-> CHOOSE v \in {feats[i].e : i \in I} : \A i \in I : v >= feats[i].e,
        north |-> CHOOSE v \in {feats[i].n : i \in I} : \A i \in I : v >= feats[i].n]

\* intersection of a cell with a boundary feature (both EPSG:4326)
Clip(g, f) == box(Max(g.x, ToUtm(f.w)), Max(g.y, ToUtm(f.s)),
                  Min(g.x2, ToUtm(f.e)), Min(g.y2, ToUtm(f.n)))
HasArea(b) == b.x < b.x2 /\ b.y < b.y2

RECURSIVE FeatureRows(_, _, _)
\* the rows one grid cell contributes: one per boundary feature it overlaps
FeatureRows(row, feats, j) ==
    IF j > Len(feats) THEN <<>>
    ELSE (IF HasArea(Clip(row.geom, feats[j]))
          THEN <<[cell_id |-> row.cell_id, src |-> row.src,
                  geom |-> Clip(row.geom, feats[j])]>>
          ELSE <<>>)
         \o FeatureRows(row, feats, j + 1)

RECURSIVE overlay(_, _, _)
\* gpd.overlay(grid_gdf, boundary_gdf, how="intersection"), rows in grid order
overlay(rows, feats, k) ==
    IF k > Len(rows) THEN <<>>
    ELSE FeatureRows(rows[k], feats, 1) \o overlay(rows, feats, k + 1)

\* column names of the overlay: a name both frames carry is suffixed _1/_2
OverlayCols(gcols, bcols) ==
    LET shared == (gcols \cap bcols) \ {"geometry"}
    IN ((gcols \cup bcols) \ shared)
       \cup (IF "cell_id" \in shared THEN {"cell_id_1", "cell_id_2"} ELSE {})

KeepOverlayIds(rows) == rows
\* clipped.reset_index(drop=True); clipped["cell_id"] = clipped.index + 1
Renumber(rows) == [k \in 1..Len(rows) |-> [rows[k] EXCEPT !.cell_id = k]]

clip_to_boundary(rows, feats) == Renumber(overlay(rows, feats, 1))

GRID_REQUIRED_COLS == {"cell_id", "centroid_lat", "centroid_lon"}

NoBounds == [north |-> 0, south |-> 0, west |-> 0, east |-> 0]

Degs      == 0..MaxDeg
Rects     == {[w |-> w, s |-> s, e |-> e, n |-> n] :
                 w \in Degs, s \in Degs, e \in Degs, n \in Degs}
\* boundary features: rectangles with a corner at the south-west or at the
\* north-east corner of the domain
Features  == {f \in Rects : /\ f.w < f.e /\ f.s < f.n
                            /\ \/ f.w = 0 /\ f.s = 0
                               \/ f.e = MaxDeg /\ f.n = MaxDeg}
FeatSeqs  == UNION {[1..k -> Features] : k \in 1..MaxFeatures}
UnitSquare == [w |-> 0, s |-> 0, e |-> 1, n |-> 1]
BoundaryCols == {{"geometry", "name"}, {"geometry", "centroid_lat", "centroid_lon"}}

\* main(): bounds_from_boundary, then the keyword call of build_grid_from_bounds
MainBounds ==
    /\ gpc = "start"
    /\ bounds' = total_bounds(boundary.feats)
    /\ gpc' = "bounds"
    /\ UNCHANGED <<boundary, cell_m, utm_epsg, grid, gridCols, gerr>>

BuildGrid ==
    /\ gpc = "bounds"
    /\ LET r == build_grid_from_bounds(bounds.north, bounds.south,
                                       bounds.west, bounds.east, cell_m)
       IN /\ gerr' = r.err
          /\ utm_epsg' = r.utm_epsg
          /\ grid' = r.rows
          /\ gridCols' = IF r.err = "" THEN {"cell_id", "geometry"} ELSE {}
          /\ gpc' = IF r.err = "" THEN "built" ELSE "failed"
    /\ UNCHANGED <<boundary, bounds, cell_m>>

ClipToBoundary ==
    /\ gpc = "built"
    /\ grid' = clip_to_boundary(grid, boundary.feats)
    /\ gridCols' = OverlayCols(gridCols, boundary.cols) \cup {"cell_id"}
    /\ gpc' = "clipped"
    /\ UNCHANGED <<boundary, bounds, cell_m, utm_epsg, gerr>>

\* poi_generator.load_grid on the file the grid generator wrote
LoadGrid ==
    /\ gpc = "clipped"
    /\ LET missing == GRID_REQUIRED_COLS \ gridCols
       IN IF missing # {}
          THEN gerr' = "ValueError: missing required columns" /\ gpc' = "load_failed"
          ELSE gerr' = gerr /\ gpc' = "loaded"
    /\ UNCHANGED <<boundary, bounds, cell_m, utm_epsg, grid, gridCols>>


GridIdle ==
    /\ gpc = "idle" /\ boundary = [cols |-> {}, feats |-> <<>>]
    /\ bounds = NoBounds /\ cell_m = 0 /\ utm_epsg = 0
    /\ grid = <<>> /\ gridCols = {} /\ gerr = ""

(***************************************************************************)
(* Flight / conflict generator                                             *)
(*                                                                         *)
(* Identifier strings are sequences of decimal digits; StrLess is Python's *)
(* str ordering.  A point is [x, y] = (lon, lat).  An obstacle buffer is   *)
(* the closed disc of radius r around c.                                   *)
(***************************************************************************)
MaxCount     == 2    \* largest --count
MaxObstacles == 2    \* most rows in the obstacle buffer file

RECURSIVE StrLess(_, _)
\* a < b for Python strings
StrLess(a, b) ==
    IF Len(a) = 0 THEN Len(b) > 0
    ELSE IF Len(b) = 0 THEN FALSE
    ELSE IF a[1] # b[1] THEN a[1] < b[1]
    ELSE StrLess(Tail(a), Tail(b))

RECURSIVE Str(_)
\* str(i) for an index i >= 0
Str(i) == IF i < 10 THEN <<i>> ELSE Str(i \div 10) \o <<i % 10>>

SortedDescending(S) ==
    IF S = {} THEN <<>>
    ELSE CHOOSE q \in [1..Cardinality(S) -> S] :
             /\ \A e \in S : \E k \in 1..Cardinality(S) : q[k] = e
             /\ \A k \in 1..(Cardinality(S) - 1) : StrLess(q[k + 1], q[k])
RECURSIVE sorted(_)
\* sorted(S) of a set of strings
sorted(S) ==
    IF S = {} THEN <<>>
    ELSE LET m == CHOOSE e \in S : \A o \in S \ {e} : StrLess(e, o)
         IN <<m>> \o sorted(S \ {m})

Range(q) == {q[k] : k \in 1..Len(q)}
SelectIdx(n, P(_)) == {k \in 1..n : P(k)}

Sq(v) == v * v
Dist2(a, b) == Sq(a.x - b.x) + Sq(a.y - b.y)
IntersectsRingOnly(p, q, c, r) ==
    LET dd == Dist2(p, q)
        s  == (c.x - p.x) * (q.x - p.x) + (c.y - p.y) * (q.y - p.y)
    IN IF r <= 0 THEN FALSE
       ELSE IF dd = 0 \/ s <= 0 THEN Dist2(c, p) = Sq(r)
       ELSE IF s >= dd THEN Dist2(c, q) = Sq(r)
       ELSE Dist2(c, p) * dd - Sq(s) = Sq(r) * dd
\* GeoSeries.intersects for one buffer: LineString(p, q) meets disc (c, r)
Intersects(p, q, c, r) ==
    LET dd == Dist2(p, q)
        s  == (c.x - p.x) * (q.x - p.x) + (c.y - p.y) * (q.y - p.y)
    IN IF r <= 0 THEN FALSE      \* Point.buffer(r <= 0) is the empty polygon
       ELSE IF dd = 0 \/ s <= 0 THEN Dist2(c, p) <= Sq(r)
       ELSE IF s >= dd THEN Dist2(c, q) <= Sq(r)
       ELSE Dist2(c, p) * dd - Sq(s) <= Sq(r) * dd

RECURSIVE MaskedIds(_, _, _, _)
\* obstacles.loc[mask, "oas"].astype(str).tolist(), or the index fallback
MaskedIds(obs, p, q, k) ==
    IF k > Len(obs.rows) THEN <<>>
    ELSE (IF Intersects(p, q, obs.rows[k].c, obs.rows[k].r)
          THEN <<IF obs.hasOas THEN obs.rows[k].oas ELSE Str(k - 1)>>
          ELSE <<>>)
         \o MaskedIds(obs, p, q, k + 1)

segment_conflicting_no_shortcut(p, q, obs) ==
    [ids |-> MaskedIds(obs, p, q, 1), evals |-> 1]
\* segment_conflicting_obstacles: the ids, and how many intersects() it ran
segment_conflicting_obstacles(p, q, obs) ==
    IF Len(obs.rows) = 0 THEN [ids |-> <<>>, evals |-> 0]
    ELSE [ids |-> MaskedIds(obs, p, q, 1), evals |-> 1]

Pt(poi) == [x |-> poi.centroid_lon, y |-> poi.centroid_lat]

IntentStatusNeedsTwoLegs(legs) ==
    IF Len(legs) > 1 THEN "conflict_obstacle" ELSE "planned"
\* "conflict_obstacle" if has_conflict else "planned"
IntentStatus(legs) == IF legs # <<>> THEN "conflict_obstacle" ELSE "planned"

LegsSkipReturn(hm, mc, ch) ==
    (IF hm.ids # <<>> THEN <<"hub_to_merchant">> ELSE <<>>)
    \o (IF mc.ids # <<>> THEN <<"merchant_to_customer">> ELSE <<>>)
\* conflict_legs after the three "if ids:" blocks
ConflictLegs(hm, mc, ch) ==
    (IF hm.ids # <<>> THEN <<"hub_to_merchant">> ELSE <<>>)
    \o (IF mc.ids # <<>> THEN <<"merchant_to_customer">> ELSE <<>>)
    \o (IF ch.ids # <<>> THEN <<"customer_to_hub">> ELSE <<>>)

\* one pass of the loop body for the chosen merchant, customer and hub
Intent(i, merchant, customer, hub, obs) ==
    LET hm   == segment_conflicting_obstacles(Pt(hub), Pt(merchant), obs)
        mc   == segment_conflicting_obstacles(Pt(merchant), Pt(customer), obs)
        ch   == segment_conflicting_obstacles(Pt(customer), Pt(hub), obs)
        legs == ConflictLegs(hm, mc, ch)
        oas  == Range(hm.ids) \cup Range(mc.ids) \cup Range(ch.ids)
    IN [evals  |-> hm.evals + mc.evals + ch.evals,
        intent |-> [flight_id |-> i,
                    origin_poi_id |-> merchant.poi_id,
                    destination_poi_id |-> customer.poi_id,
                    recovery_poi_id |-> hub.poi_id,
                    status |-> IntentStatus(legs),
                    has_obstacle_conflict |-> legs # <<>>,
                    obstacle_conflict_legs |-> legs,
                    obstacle_conflict_oas |-> sorted(oas),
                    origin_poi |-> merchant,
                    destination_poi |-> customer,
                    recovery_poi |-> hub]]

POI_REQUIRED_COLS ==
    {"poi_id", "poi_type", "poi_name", "cell_id", "centroid_lat", "centroid_lon"}

\* (row["poi_type"] or "").strip().lower() on the type strings of the catalog
StripLower(raw) ==
    CASE raw = " Hub " -> "hub"
      [] raw = "Merchant" -> "merchant"
      [] OTHER -> raw

RECURSIVE RowsOfType(_, _, _)
RowsOfType(rows, t, k) ==
    IF k > Len(rows) THEN <<>>
    ELSE (IF StripLower(rows[k].poi_type) = t
          THEN <<[rows[k] EXCEPT !.poi_type = t]>> ELSE <<>>)
         \o RowsOfType(rows, t, k + 1)

load_pois_no_hub_check(file) ==
    LET none == [merchants |-> <<>>, customers |-> <<>>, hubs |-> <<>>]
        got  == [merchants |-> RowsOfType(file.rows, "merchant", 1),
                 customers |-> RowsOfType(file.rows, "customer", 1),
                 hubs      |-> RowsOfType(file.rows, "hub", 1)]
    IN IF ~file.exists THEN [err |-> "FileNotFoundError", pois |-> none]
       ELSE IF POI_REQUIRED_COLS \ file.cols # {}
       THEN [err |-> "ValueError: missing required columns", pois |-> none]
       ELSE IF got.merchants = <<>> THEN [err |-> "ValueError: No merchant POIs", pois |-> none]
       ELSE IF got.customers = <<>> THEN [err |-> "ValueError: No customer POIs", pois |-> none]
       ELSE [err |-> "", pois |-> got]

\* load_pois: [err, pois]
load_pois(file) ==
    LET none == [merchants |-> <<>>, customers |-> <<>>, hubs |-> <<>>]
        got  == [merchants |-> RowsOfType(file.rows, "merchant", 1),
                 customers |-> RowsOfType(file.rows, "customer", 1),
                 hubs      |-> RowsOfType(file.rows, "hub", 1)]
    IN IF ~file.exists THEN [err |-> "FileNotFoundError", pois |-> none]
       ELSE IF POI_REQUIRED_COLS \ file.cols # {}
       THEN [err |-> "ValueError: missing required columns", pois |-> none]
       ELSE IF got.merchants = <<>> THEN [err |-> "ValueError: No merchant POIs", pois |-> none]
       ELSE IF got.customers = <<>> THEN [err |-> "ValueError: No customer POIs", pois |-> none]
       ELSE IF got.hubs = <<>> THEN [err |-> "ValueError: No hub POIs", pois |-> none]
       ELSE [err |-> "", pois |-> got]

\* load_obstacle_buffers: a missing file gives the empty frame
load_obstacle_buffers(file) ==
    IF ~file.exists THEN [hasOas |-> FALSE, rows |-> <<>>]
    ELSE [hasOas |-> file.hasOas, rows |-> file.rows]

PoiRow(id, t, lat, lon) ==
    [poi_id |-> id, poi_type |-> t, poi_name |-> id, cell_id |-> id,
     centroid_lat |-> lat, centroid_lon |-> lon]
PoiCatalog ==
    << PoiRow(0, "hub", 0, 0), PoiRow(1, " Hub ", 4, 4), PoiRow(2, "Merchant", 0, 4),
       PoiRow(3, "customer", 4, 0), PoiRow(4, "depot", 2, 2) >>
RECURSIVE SubSeqOf(_, _, _)
SubSeqOf(q, keep, k) ==
    IF k > Len(q) THEN <<>>
    ELSE (IF k \in keep THEN <<q[k]>> ELSE <<>>) \o SubSeqOf(q, keep, k + 1)
PoiFiles ==
    {[exists |-> TRUE, cols |-> POI_REQUIRED_COLS,
      rows |-> SubSeqOf(PoiCatalog, keep \cup {Len(PoiCatalog)}, 1)] :
        keep \in SUBSET (1..Len(PoiCatalog))}
    \cup {[exists |-> TRUE, cols |-> POI_REQUIRED_COLS \ {c}, rows |-> PoiCatalog] :
            c \in {"cell_id", "poi_type"}}
    \cup {[exists |-> FALSE, cols |-> {}, rows |-> <<>>]}

OasIds == {<<1, 1>>, <<2>>}
Sites  == {[x |-> 0, y |-> 0], [x |-> 0, y |-> 2], [x |-> 2, y |-> 2],
           [x |-> 3, y |-> 2], [x |-> 6, y |-> 6]}
Radii  == {1}
BufferRows == [oas : OasIds, c : Sites, r : Radii]
ObstacleFiles ==
    {[exists |-> TRUE, hasOas |-> TRUE, rows |-> rows] :
        rows \in UNION {[1..k -> BufferRows] : k \in 0..MaxObstacles}}
    \cup {[exists |-> TRUE, hasOas |-> FALSE, rows |-> rows] :
        rows \in UNION {[1..k -> {b \in BufferRows : b.oas = <<2>>}] : k \in 1..MaxObstacles}}
    \cup {[exists |-> FALSE, hasOas |-> FALSE, rows |-> <<>>]}

NoPois == [merchants |-> <<>>, customers |-> <<>>, hubs |-> <<>>]
NoObstacles == [hasOas |-> FALSE, rows |-> <<>>]

\* main(): pois = load_pois(args.poi_file)
LoadPois ==
    /\ fpc = "start"
    /\ LET r == load_pois(poiFile)
       IN /\ ferr' = r.err
          /\ pois' = r.pois
          /\ fpc' = IF r.err = "" THEN "loaded" ELSE "failed"
    /\ UNCHANGED <<poiFile, obstacles, count, flights, geomEvals>>

\* generate_operational_intents up to the loop: the obstacle file is read
BeginGenerate ==
    /\ fpc = "loaded"
    /\ \E file \in ObstacleFiles, n \in 0..MaxCount :
          /\ obstacles' = load_obstacle_buffers(file)
          /\ count' = n
    /\ flights' = <<>>
    /\ fpc' = "loop"
    /\ UNCHANGED <<poiFile, pois, geomEvals, ferr>>

\* one iteration of "for i in range(1, count + 1)"
FlightIteration ==
    /\ fpc = "loop"
    /\ Len(flights) < count
    /\ IF pois.merchants = <<>> \/ pois.customers = <<>> \/ pois.hubs = <<>>
       THEN /\ ferr' = "IndexError" /\ fpc' = "failed"
            /\ UNCHANGED <<flights, geomEvals>>
       ELSE \E m \in 1..Len(pois.merchants), c \in 1..Len(pois.customers),
               h \in 1..Len(pois.hubs) :
               LET r == Intent(Len(flights) + 1, pois.merchants[m],
                               pois.customers[c], pois.hubs[h], obstacles)
               IN /\ flights' = Append(flights, r.intent)
                  /\ geomEvals' = geomEvals + r.evals
                  /\ UNCHANGED <<ferr, fpc>>
    /\ UNCHANGED <<poiFile, pois, obstacles, count>>

\* the loop is exhausted: the flights are returned and written
EndGenerate ==
    /\ fpc = "loop"
    /\ Len(flights) >= count
    /\ fpc' = "done"
    /\ UNCHANGED <<poiFile, pois, obstacles, count, flights, geomEvals, ferr>>

(***************************************************************************)
(* Obstacle parser                                                         *)
(*                                                                         *)
(* A line of the DOF file is blank, free text, or a tokenised record       *)
(* candidate.  Angles are integers in 1/360000 degree (seconds carry two   *)
(* decimals), so dms_to_decimal is exact.                                  *)
(***************************************************************************)
MaxLines == 6    \* most lines in the DOF file
\* for line in lines[4:]
HEADER_LINES == 4

\* LINE_RE.match(line): the token widths and hemisphere letters of the pattern
LINE_RE(line) ==
    /\ line.kind = "fields"
    /\ line.lat_deg_w \in {2, 3} /\ line.lat_hem \in {"N", "S"}
    /\ line.lon_deg_w \in {2, 3} /\ line.lon_hem \in {"E", "W"}
    /\ line.agl_w = 5 /\ line.amsl_w = 5

\* val = deg + minute / 60.0 + sec / 3600.0, negated for S and W
dms_to_decimal(deg, minute, sec, hemisphere) ==
    LET val == deg * 360000 + minute * 6000 + sec
    IN IF hemisphere \in {"S", "W"} THEN -val ELSE val

\* the dict appended for a matching line (line_no is a history field)
DofRow(line, k) ==
    [oas |-> line.oas, state |-> line.st, city |-> line.city,
     obstacle_type |-> line.obstacle_type,
     agl_ft |-> line.agl_ht, amsl_ft |-> line.amsl_ht,
     lat |-> dms_to_decimal(line.lat_deg, line.lat_min, line.lat_sec, line.lat_hem),
     lon |-> dms_to_decimal(line.lon_deg, line.lon_min, line.lon_sec, line.lon_hem),
     line_no |-> k]

RECURSIVE ParseLinesStopAtNoise(_, _)
ParseLinesStopAtNoise(lines, k) ==
    IF k > Len(lines) THEN <<>>
    ELSE IF lines[k].kind = "blank" THEN ParseLinesStopAtNoise(lines, k + 1)
    ELSE IF ~LINE_RE(lines[k]) THEN <<>>
    ELSE <<DofRow(lines[k], k)>> \o ParseLinesStopAtNoise(lines, k + 1)

RECURSIVE ParseLines(_, _)
\* the body of the for loop, from line k on
ParseLines(lines, k) ==
    IF k > Len(lines) THEN <<>>
    ELSE IF lines[k].kind = "blank" THEN ParseLines(lines, k + 1)
    ELSE IF ~LINE_RE(lines[k]) THEN ParseLines(lines, k + 1)
    ELSE <<DofRow(lines[k], k)>> \o ParseLines(lines, k + 1)

BodyStartNoSkip(lines) == Min(0, Len(lines)) + 1
\* the index of the first line of lines[4:]
BodyStart(lines) == Min(HEADER_LINES, Len(lines)) + 1

\* parse_dof: [err, rows]
parse_dof(file) ==
    IF ~file.exists THEN [err |-> "FileNotFoundError", rows |-> <<>>]
    ELSE LET rows == ParseLines(file.lines, BodyStart(file.lines))
         IN IF rows = <<>>
            THEN [err |-> "RuntimeError: Parsed 0 obstacles", rows |-> <<>>]
            ELSE [err |-> "", rows |-> rows]

Candidate(oas, latHem, lonHem, aglW, agl) ==
    [kind |-> "fields", oas |-> oas, st |-> "WA", city |-> "VANCOUVER",
     lat_deg |-> 45, lat_deg_w |-> 2, lat_min |-> 34, lat_sec |-> 380, lat_hem |-> latHem,
     lon_deg |-> 122, lon_deg_w |-> 3, lon_min |-> 24, lon_sec |-> 5158, lon_hem |-> lonHem,
     obstacle_type |-> "T-L TWR", agl_cat |-> 1,
     agl_ht |-> agl, agl_w |-> aglW, amsl_ht |-> agl + 40, amsl_w |-> 5]
TextLine(kind) ==
    [Candidate(<<>>, "", "", 0, 0) EXCEPT !.kind = kind, !.lat_deg_w = 0, !.lon_deg_w = 0,
                                           !.amsl_w = 0]
DofLines ==
    { Candidate(<<2>>, "N", "W", 5, 300),      \* a record line
      Candidate(<<1, 1>>, "S", "E", 5, 100),   \* a record line, other hemispheres
      Candidate(<<2>>, "N", "W", 4, 300),      \* a 4-digit AGL field: no match
      TextLine("blank") }
DofFiles ==
    {[exists |-> TRUE, lines |-> ls] : ls \in UNION {[1..n -> DofLines] : n \in 0..MaxLines}}
    \cup {[exists |-> FALSE, lines |-> <<>>]}

\* parse_dof(DOF_PATH)
ParseDof ==
    /\ ppc = "start"
    /\ LET r == parse_dof(dofFile)
       IN /\ perr' = r.err
          /\ dofRows' = r.rows
          /\ ppc' = IF r.err = "" THEN "parsed" ELSE "failed"
    /\ UNCHANGED dofFile

(***************************************************************************)
(* Obstacle preprocessing                                                  *)
(*                                                                         *)
(* BUFFER_M is a literal of main(); it is the run parameter buffer_m here, *)
(* in the length unit of the point coordinates.  The area of interest is   *)
(* the closed square [0, AOI_MAX] x [0, AOI_MAX].                          *)
(***************************************************************************)
MaxRecords == 2    \* most rows in the parsed obstacle file
MaxBufferM == 2    \* largest BUFFER_M
MIN_AGL_FT == 218

\* gpd.clip(dof, seattle) keeps the points that meet the area of interest
InAoi(c) == c.x >= 0 /\ c.x <= 4 /\ c.y >= 0 /\ c.y <= 4

QualifiesAbove(rec) == rec.agl_ft > MIN_AGL_FT
\* clipped["agl_ft"] >= MIN_AGL_FT
Qualifies(rec) == rec.agl_ft >= MIN_AGL_FT

RECURSIVE BufferedRows(_, _, _)
\* clip, filter and buffer, row by row (src is a history field: the input row)
BufferedRows(rows, r, k) ==
    IF k > Len(rows) THEN <<>>
    ELSE (IF InAoi(rows[k].c) /\ Qualifies(rows[k])
          THEN <<[oas |-> rows[k].oas, agl_ft |-> rows[k].agl_ft,
                  c |-> rows[k].c, r |-> r, src |-> k]>>
          ELSE <<>>)
         \o BufferedRows(rows, r, k + 1)

\* obstacle_preprocess.main with BUFFER_M = r: [err, wrote, rows]
preprocess_main(dof, r) ==
    IF ~dof.hasAgl THEN [err |-> "KeyError: agl_ft", wrote |-> FALSE, rows |-> <<>>]
    ELSE LET rows == BufferedRows(dof.rows, r, 1)
         IN IF rows = <<>>
            THEN [err |-> "IndexError: iloc[0]", wrote |-> FALSE, rows |-> <<>>]
            ELSE [err |-> "", wrote |-> TRUE, rows |-> rows]

Agls == {MIN_AGL_FT - 1, MIN_AGL_FT, MIN_AGL_FT + 82}
DofGeoFiles ==
    {[hasAgl |-> TRUE,
      rows |-> [k \in DOMAIN f |-> [oas |-> Str(k), agl_ft |-> f[k].agl_ft, c |-> f[k].c]]] :
        f \in UNION {[1..m -> [agl_ft : Agls, c : Sites]] : m \in 0..MaxRecords}}
NoBufFile == [exists |-> FALSE, hasOas |-> FALSE, rows |-> <<>>]
NoRun == [buffer_m |-> -1, legFlags |-> {}]

\* the legs flagged for the fixed flights (one per hub of the catalog)
FlaggedLegs(file) ==
    LET obs == load_obstacle_buffers(file)
        p   == load_pois([exists |-> TRUE, cols |-> POI_REQUIRED_COLS,
                          rows |-> PoiCatalog]).pois
    IN {<<h, leg>> \in (1..Len(p.hubs)) \X {"hub_to_merchant", "merchant_to_customer",
                                            "customer_to_hub"} :
           \E i \in 1..3 :
              LET legs == Intent(h, p.merchants[1], p.customers[1], p.hubs[h], obs)
                              .intent.obstacle_conflict_legs
              IN i <= Len(legs) /\ legs[i] = leg}

RunPreprocess(r) ==
    LET out == preprocess_main(dofGeo, r)
    IN /\ buffer_m' = r
       /\ berr' = out.err
       /\ bufFile' = IF out.wrote
                     THEN [exists |-> TRUE, hasOas |-> TRUE, rows |-> out.rows]
                     ELSE bufFile
       /\ bpc' = IF out.err = "" THEN "buffered" ELSE "crashed"

\* the first run of obstacle_preprocess.main
Preprocess ==
    /\ bpc = "start"
    /\ \E r \in 0..MaxBufferM : RunPreprocess(r)
    /\ UNCHANGED <<dofGeo, legFlags, prevRun>>

\* the flight generator's leg tests against the file on disk
FlagLegs ==
    /\ bpc \in {"buffered", "crashed"}
    /\ legFlags' = FlaggedLegs(bufFile)
    /\ bpc' = "flagged"
    /\ UNCHANGED <<dofGeo, buffer_m, bufFile, berr, prevRun>>

\* a second run on the same records with BUFFER_M not smaller than before
PreprocessAgain ==
    /\ bpc = "flagged" /\ prevRun = NoRun
    /\ prevRun' = [buffer_m |-> buffer_m, legFlags |-> legFlags]
    /\ \E r \in buffer_m..MaxBufferM : RunPreprocess(r)
    /\ UNCHANGED <<dofGeo, legFlags>>

BufferIdle ==
    /\ bpc = "idle" /\ dofGeo = [hasAgl |-> FALSE, rows |-> <<>>]
    /\ buffer_m = 0 /\ bufFile = NoBufFile /\ berr = ""
    /\ legFlags = {} /\ prevRun = NoRun

(***************************************************************************)
(* POI placement                                                           *)
(*                                                                         *)
(* random.Random(seed) is a deterministic generator private to the call.   *)
(* The Mersenne Twister is replaced by a full-period 4-bit linear          *)
(* congruential generator; random.sample and its _randbelow are those of   *)
(* the standard library for populations of at most 21 items.               *)
(***************************************************************************)
MaxCells == 2          \* most cells in the grid
MaxN == 2              \* largest requested count per role
MaxGlobalDraws == 2    \* most draws from the module-level generator
HUB_SEED == 42
MERCHANT_SEED == 43
CUSTOMER_SEED == 44

RngNext(st) == (5 * st + 3) % 16
SeedShared(seed) == (seed + globalRng) % 16
\* random.Random(seed): the state after seeding
Seed(seed) == seed % 16

RECURSIVE BitLength(_)
BitLength(n) == IF n = 0 THEN 0 ELSE 1 + BitLength(n \div 2)
RECURSIVE Pow2(_)
Pow2(k) == IF k = 0 THEN 1 ELSE 2 * Pow2(k - 1)

RECURSIVE randbelow(_, _)
\* _randbelow_with_getrandbits(n): draw BitLength(n) bits until below n
randbelow(n, st) ==
    LET st1 == RngNext(st)
        r   == st1 \div Pow2(4 - BitLength(n))
    IN IF r < n THEN [v |-> r, st |-> st1] ELSE randbelow(n, st1)

RECURSIVE SampleNoSwap(_, _, _, _)
SampleNoSwap(pool, k, i, st) ==
    IF i >= k THEN <<>>
    ELSE LET d == randbelow(Len(pool) - i, st)
         IN <<pool[d.v + 1]>> \o SampleNoSwap(pool, k, i + 1, d.st)

RECURSIVE SamplePool(_, _, _, _)
\* random.sample, pool branch: result[i] = pool[j]; pool[j] = pool[n-i-1]
SamplePool(pool, k, i, st) ==
    IF i >= k THEN <<>>
    ELSE LET n == Len(pool)
             d == randbelow(n - i, st)
             j == d.v + 1
         IN <<pool[j]>> \o SamplePool([pool EXCEPT ![j] = pool[n - i]], k, i + 1, d.st)

\* rng.sample(range(n), k): [err, idx], idx 0-based row positions
sample(seed, n, k) ==
    IF k < 0 \/ k > n
    THEN [err |-> "ValueError: Sample larger than population or is negative", idx |-> <<>>]
    ELSE [err |-> "", idx |-> SamplePool([x \in 1..n |-> x - 1], k, 0, Seed(seed))]

\* Series.round(3) of a value held in units of 1e-4 degree (half to even)
Round3(v) ==
    LET q == v \div 10
        r == v % 10
    IN IF r > 5 \/ (r = 5 /\ q % 2 = 1) THEN q + 1 ELSE q

\* f"poi_{i:04d}"
PoiId(i) == [x \in 1..(4 - Len(Str(i))) |-> 0] \o Str(i)

\* gdf.iloc[indices] with poi_type and poi_name for one role
RolePois(gdf, idx, role) ==
    [i \in 1..Len(idx) |->
        [poi_type |-> role, poi_name |-> <<role, i>>,
         cell_id |-> gdf[idx[i] + 1].cell_id,
         centroid_lat |-> gdf[idx[i] + 1].centroid_lat,
         centroid_lon |-> gdf[idx[i] + 1].centroid_lon]]

\* create_pois: [err, rows]
create_pois(gdf, n_hubs, n_merchants, n_customers) ==
    LET h == sample(HUB_SEED, Len(gdf), Min(n_hubs, Len(gdf)))
        m == sample(MERCHANT_SEED, Len(gdf), Min(n_merchants, Len(gdf)))
        c == sample(CUSTOMER_SEED, Len(gdf), Min(n_customers, Len(gdf)))
        all == RolePois(gdf, h.idx, "hub") \o RolePois(gdf, m.idx, "merchant")
                   \o RolePois(gdf, c.idx, "customer")
    IN IF h.err # "" THEN [err |-> h.err, rows |-> <<>>]
       ELSE IF m.err # "" THEN [err |-> m.err, rows |-> <<>>]
       ELSE IF c.err # "" THEN [err |-> c.err, rows |-> <<>>]
       ELSE [err |-> "",
             rows |-> [i \in 1..Len(all) |->
                         [poi_id |-> PoiId(i - 1), poi_type |-> all[i].poi_type,
                          poi_name |-> all[i].poi_name, cell_id |-> all[i].cell_id,
                          centroid_lat |-> Round3(all[i].centroid_lat),
                          centroid_lon |-> Round3(all[i].centroid_lon)]]]

\* grids as load_grid returns them: cell_id 1..M, centroids in 1e-4 degree
PoiGrids ==
    {[k \in 1..M |-> [cell_id |-> k, centroid_lat |-> 476000 + 15 * k,
                      centroid_lon |-> -1223000 - 15 * k]] : M \in 1..MaxCells}
CountSets ==
    [hub : 0..MaxN, merchant : 0..MaxN, customer : 0..MaxN]
        \cup {[hub |-> 1, merchant |-> -1, customer |-> 1]}
NoCounts == [hub |-> 0, merchant |-> 0, customer |-> 0]
NoPoiOut == [err |-> "", rows |-> <<>>]
NoPoiCall == [counts |-> NoCounts, out |-> NoPoiOut]

\* main: create_pois on the loaded grid with the command-line counts
CreatePois ==
    /\ qpc = "start"
    /\ \E cn \in CountSets :
          /\ poiCounts' = cn
          /\ poiOut' = create_pois(poiGrid, cn.hub, cn.merchant, cn.customer)
    /\ qpc' = "placed"
    /\ UNCHANGED <<poiGrid, poiPrev, globalRng, globalDraws>>

\* some other code draws from the module-level generator
GlobalDraw ==
    /\ qpc \in {"start", "placed"}
    /\ globalDraws < MaxGlobalDraws
    /\ globalRng' = RngNext(globalRng)
    /\ globalDraws' = globalDraws + 1
    /\ UNCHANGED <<qpc, poiGrid, poiCounts, poiOut, poiPrev>>

\* a later call on the same grid
CreatePoisAgain ==
    /\ qpc = "placed"
    /\ poiPrev' = [counts |-> poiCounts, out |-> poiOut]
    /\ \E cn \in CountSets :
          /\ poiCounts' = cn
          /\ poiOut' = create_pois(poiGrid, cn.hub, cn.merchant, cn.customer)
    /\ qpc' = "again"
    /\ UNCHANGED <<poiGrid, globalRng, globalDraws>>

PlaceIdle ==
    /\ qpc = "idle" /\ poiGrid = <<>> /\ poiCounts = NoCounts
    /\ poiOut = NoPoiOut /\ poiPrev = NoPoiCall
    /\ globalRng = 0 /\ globalDraws = 0

ParseIdle ==
    /\ ppc = "idle" /\ dofFile = [exists |-> FALSE, lines |-> <<>>]
    /\ dofRows = <<>> /\ perr = ""

FlightIdle ==
    /\ fpc = "idle" /\ poiFile = [exists |-> FALSE, cols |-> {}, rows |-> <<>>]
    /\ pois = NoPois /\ obstacles = NoObstacles /\ count = 0
    /\ flights = <<>> /\ geomEvals = 0 /\ ferr = ""

InitFlights ==
    /\ fpc = "start"
    /\ poiFile \in PoiFiles
    /\ pois = NoPois /\ obstacles = NoObstacles /\ count = 0
    /\ flights = <<>> /\ geomEvals = 0 /\ ferr = ""
    /\ CrsIdle /\ GridIdle /\ ParseIdle /\ BufferIdle /\ PlaceIdle

NextFlights ==
    \/ LoadPois /\ UNCHANGED <<crsVars, gridVars, parseVars, bufferVars, placeVars>>
    \/ BeginGenerate /\ UNCHANGED <<crsVars, gridVars, parseVars, bufferVars, placeVars>>
    \/ FlightIteration /\ UNCHANGED <<crsVars, gridVars, parseVars, bufferVars, placeVars>>
    \/ EndGenerate /\ UNCHANGED <<crsVars, gridVars, parseVars, bufferVars, placeVars>>

SpecFlights == InitFlights /\ [][NextFlights]_vars

\* the run of main() on a boundary file
InitGridMain ==
    /\ gpc = "start"
    /\ boundary \in {[cols |-> c, feats |-> fs] : c \in BoundaryCols, fs \in FeatSeqs}
    /\ cell_m \in {1, MaxCell}
    /\ bounds = NoBounds

\* a direct call of build_grid_from_bounds; its grid is clipped to the unit square
InitGridDirect ==
    /\ gpc = "bounds"
    /\ boundary = [cols |-> {"geometry", "name"}, feats |-> <<UnitSquare>>]
    /\ cell_m \in (-1)..MaxCell
    /\ bounds \in [north : Degs, south : Degs, west : Degs, east : Degs]

InitGrid ==
    /\ InitGridMain \/ InitGridDirect
    /\ utm_epsg = 0 /\ grid = <<>> /\ gridCols = {} /\ gerr = ""
    /\ CrsIdle /\ FlightIdle /\ ParseIdle /\ BufferIdle /\ PlaceIdle

NextGrid ==
    \/ MainBounds /\ UNCHANGED <<crsVars, flightVars, parseVars, bufferVars, placeVars>>
    \/ BuildGrid /\ UNCHANGED <<crsVars, flightVars, parseVars, bufferVars, placeVars>>
    \/ ClipToBoundary /\ UNCHANGED <<crsVars, flightVars, parseVars, bufferVars, placeVars>>
    \/ LoadGrid /\ UNCHANGED <<crsVars, flightVars, parseVars, bufferVars, placeVars>>

SpecGrid == InitGrid /\ [][NextGrid]_vars

InitCrs ==
    /\ crsIn \in [lat : SampleLats, lon : Lons]
    /\ crsCur = NoCall /\ crsPrev = NoCall
    /\ GridIdle /\ FlightIdle /\ ParseIdle /\ BufferIdle /\ PlaceIdle

NextCrs ==
    \/ CrsCall /\ UNCHANGED <<gridVars, flightVars, parseVars, bufferVars, placeVars>>
    \/ CrsCallAgain /\ UNCHANGED <<gridVars, flightVars, parseVars, bufferVars, placeVars>>
    \/ CrsCallMirror /\ UNCHANGED <<gridVars, flightVars, parseVars, bufferVars, placeVars>>
    \/ CrsCallSeam /\ UNCHANGED <<gridVars, flightVars, parseVars, bufferVars, placeVars>>

SpecCrs == InitCrs /\ [][NextCrs]_vars

InitParse ==
    /\ ppc = "start"
    /\ dofFile \in DofFiles
    /\ dofRows = <<>> /\ perr = ""
    /\ CrsIdle /\ GridIdle /\ FlightIdle /\ BufferIdle /\ PlaceIdle

NextParse ==
    \/ ParseDof /\ UNCHANGED <<crsVars, gridVars, flightVars, bufferVars, placeVars>>

SpecParse == InitParse /\ [][NextParse]_vars

InitBuffer ==
    /\ bpc = "start"
    /\ dofGeo \in DofGeoFiles \cup {[hasAgl |-> FALSE, rows |-> <<>>]}
    /\ buffer_m = 0 /\ bufFile = NoBufFile /\ berr = ""
    /\ legFlags = {} /\ prevRun = NoRun
    /\ CrsIdle /\ GridIdle /\ FlightIdle /\ ParseIdle /\ PlaceIdle

NextBuffer ==
    \/ Preprocess /\ UNCHANGED <<crsVars, gridVars, flightVars, parseVars, placeVars>>
    \/ FlagLegs /\ UNCHANGED <<crsVars, gridVars, flightVars, parseVars, placeVars>>
    \/ PreprocessAgain /\ UNCHANGED <<crsVars, gridVars, flightVars, parseVars, placeVars>>

SpecBuffer == InitBuffer /\ [][NextBuffer]_vars

InitPlace ==
    /\ qpc = "start" /\ poiGrid \in PoiGrids /\ poiCounts = NoCounts
    /\ poiOut = NoPoiOut /\ poiPrev = NoPoiCall
    /\ globalRng = 0 /\ globalDraws = 0
    /\ CrsIdle /\ GridIdle /\ FlightIdle /\ ParseIdle /\ BufferIdle

NextPlace ==
    \/ CreatePois /\ UNCHANGED <<crsVars, gridVars, flightVars, parseVars, bufferVars>>
    \/ GlobalDraw /\ UNCHANGED <<crsVars, gridVars, flightVars, parseVars, bufferVars>>
    \/ CreatePoisAgain /\ UNCHANGED <<crsVars, gridVars, flightVars, parseVars, bufferVars>>

SpecPlace == InitPlace /\ [][NextPlace]_vars

(***************************************************************************)
(* Properties                                                              *)
(***************************************************************************)
LegNames == {"hub_to_merchant", "merchant_to_customer", "customer_to_hub"}

\* the two end points of a named leg of flight f
LegEnds(f, leg) ==
    CASE leg = "hub_to_merchant"      -> <<Pt(f.recovery_poi), Pt(f.origin_poi)>>
      [] leg = "merchant_to_customer" -> <<Pt(f.origin_poi), Pt(f.destination_poi)>>
      [] leg = "customer_to_hub"      -> <<Pt(f.destination_poi), Pt(f.recovery_poi)>>

\* the rows of the obstacle frame whose buffer meets the leg
HitRows(f, leg) ==
    {k \in 1..Len(obstacles.rows) :
        Intersects(LegEnds(f, leg)[1], LegEnds(f, leg)[2],
                   obstacles.rows[k].c, obstacles.rows[k].r)}

\* the identifier the frame gives row k
RowId(k) == IF obstacles.hasOas THEN obstacles.rows[k].oas ELSE Str(k - 1)

FlightSet == {flights[i] : i \in 1..Len(flights)}

\* C1: a flight's status is conflict_obstacle exactly when one of its three
\* legs meets an obstacle buffer, and planned otherwise; no other status occurs.
C1_StatusIffSomeLegConflicts ==
    \A f \in FlightSet :
        /\ f.status \in {"planned", "conflict_obstacle"}
        /\ f.status = "conflict_obstacle" <=> \E leg \in LegNames : HitRows(f, leg) # {}
        /\ f.status = "planned" <=> \A leg \in LegNames : HitRows(f, leg) = {}

\* a finished run holding a flight whose only conflicting leg is the return
\* leg, and a flight that is planned although obstacles are loaded
C1_Witness ==
    /\ fpc = "done"
    /\ \E f \in FlightSet :
          /\ f.status = "conflict_obstacle"
          /\ HitRows(f, "hub_to_merchant") = {}
          /\ HitRows(f, "merchant_to_customer") = {}
          /\ HitRows(f, "customer_to_hub") # {}
    /\ \E f \in FlightSet : f.status = "planned" /\ obstacles.rows # <<>>

\* C2: the conflicting-leg list names a leg exactly when that leg's segment
\* meets some buffer, and the identifier of every buffer met by a leg is in
\* the flight's obstacle identifier list.
C2_LegsNamedIffHit ==
    \A f \in FlightSet :
        /\ Range(f.obstacle_conflict_legs) \subseteq LegNames
        /\ \A leg \in LegNames :
              /\ leg \in Range(f.obstacle_conflict_legs) <=> HitRows(f, leg) # {}
              /\ \A k \in HitRows(f, leg) : RowId(k) \in Range(f.obstacle_conflict_oas)

\* a flight with exactly one buffer across exactly one leg (the return leg),
\* reported on that leg with its identifier
C2_Witness ==
    \E f \in FlightSet :
        /\ Cardinality(HitRows(f, "customer_to_hub")) = 1
        /\ HitRows(f, "hub_to_merchant") = {}
        /\ HitRows(f, "merchant_to_customer") = {}
        /\ f.obstacle_conflict_legs = <<"customer_to_hub">>
        /\ \E k \in HitRows(f, "customer_to_hub") : f.obstacle_conflict_oas = <<RowId(k)>>

\* C3: the obstacle identifier list is the union over the three legs of the
\* identifiers of the buffers met, without repeats, in ascending order.
C3_OasIsSortedUnion ==
    \A f \in FlightSet :
        LET q == f.obstacle_conflict_oas
        IN /\ Range(q) = UNION {{RowId(k) : k \in HitRows(f, leg)} : leg \in LegNames}
           /\ \A i \in 1..Len(q), j \in 1..Len(q) : i < j => StrLess(q[i], q[j])

\* a flight with two identifiers, one of them met on two legs, whose rows
\* stand in the frame in descending identifier order
C3_Witness ==
    \E f \in FlightSet :
        /\ Len(f.obstacle_conflict_oas) = 2
        /\ \E k \in 1..Len(obstacles.rows) :
              k \in HitRows(f, "hub_to_merchant") \cap HitRows(f, "customer_to_hub")
        /\ Len(obstacles.rows) = 2
        /\ obstacles.hasOas
        /\ StrLess(obstacles.rows[2].oas, obstacles.rows[1].oas)

\* C4: with an empty buffer set every flight is planned with empty conflict
\* lists, no geometric intersection is evaluated, and a finished run returns
\* exactly count flights.
C4_EmptyObstaclesAllPlanned ==
    obstacles.rows = <<>> =>
        /\ \A f \in FlightSet :
              /\ f.status = "planned"
              /\ f.obstacle_conflict_legs = <<>>
              /\ f.obstacle_conflict_oas = <<>>
        /\ geomEvals = 0
        /\ fpc = "done" => Len(flights) = count

\* a finished run of MaxCount flights against the empty buffer set
C4_Witness ==
    /\ fpc = "done" /\ obstacles.rows = <<>>
    /\ count = MaxCount /\ count > 0 /\ Len(flights) = count

Clipped == gpc \in {"clipped", "loaded", "load_failed"}

\* C5: after clipping, the cell_id of the k-th of the N output rows is k, so
\* the identifiers are exactly 1..N whatever the pre-clip identifiers were.
C5_ClippedIdsDense ==
    Clipped => \A k \in 1..Len(grid) : grid[k].cell_id = k

\* a clipped grid that lost a cell, so that a surviving cell changed its id
C5_Witness ==
    /\ gpc = "clipped" /\ Len(grid) >= 2
    /\ \E k \in 1..Len(grid) : grid[k].src # grid[k].cell_id

\* C6: the grid tiler's output carries cell_id and the centroid columns, so
\* loading it for POI placement never raises the missing-columns error.
C6_GridOutputLoads ==
    /\ Clipped => GRID_REQUIRED_COLS \subseteq gridCols
    /\ gpc # "load_failed"

Built == gpc \in {"built", "failed", "clipped", "loaded", "load_failed"}

\* C7: build_grid_from_bounds raises, with no cell produced, exactly when
\* south >= north or west >= east or the cell size is <= 0.
C7_RejectsExactlyBadInput ==
    Built =>
        LET bad == \/ bounds.south >= bounds.north
                   \/ bounds.west >= bounds.east
                   \/ cell_m <= 0
        IN /\ gpc = "failed" <=> bad
           /\ gpc = "failed" => gerr # "" /\ grid = <<>>
           /\ gpc = "built" => gerr = ""

\* a rejected call whose only fault is south = north
C7_Witness ==
    /\ gpc = "failed"
    /\ bounds.south = bounds.north /\ bounds.west < bounds.east /\ cell_m > 0

\* C8: the cells of a built grid have positive width and height of at most
\* the cell size, do not overlap, cover every unit square of the planar
\* bounding box, and are numbered 1..K in row-major scan order.
C8_TilingCoversBox ==
    gpc = "built" =>
        LET minx == ToUtm(bounds.west)
            miny == ToUtm(bounds.south)
            maxx == ToUtm(bounds.east)
            maxy == ToUtm(bounds.north)
            K    == 1..Len(grid)
            g(k) == grid[k].geom
        IN /\ \A k \in K :
                /\ g(k).x2 - g(k).x > 0 /\ g(k).x2 - g(k).x <= cell_m
                /\ g(k).y2 - g(k).y > 0 /\ g(k).y2 - g(k).y <= cell_m
                /\ grid[k].cell_id = k
           /\ \A i \in K, j \in K :
                i < j => /\ ~(/\ Max(g(i).x, g(j).x) < Min(g(i).x2, g(j).x2)
                              /\ Max(g(i).y, g(j).y) < Min(g(i).y2, g(j).y2))
                         /\ \/ g(i).y < g(j).y
                            \/ g(i).y = g(j).y /\ g(i).x < g(j).x
           /\ \A u \in minx..(maxx - 1), v \in miny..(maxy - 1) :
                \E k \in K : /\ g(k).x <= u /\ u + 1 <= g(k).x2
                             /\ g(k).y <= v /\ v + 1 <= g(k).y2

\* a built grid whose last column and last row are partial cells
C8_Witness ==
    /\ gpc = "built" /\ Len(grid) >= 4
    /\ \E k \in 1..Len(grid) : grid[k].geom.x2 - grid[k].geom.x < cell_m
    /\ \E k \in 1..Len(grid) : grid[k].geom.y2 - grid[k].geom.y < cell_m

ZoneOfId(id) == id % 100

\* C9: longitude -180 and longitude +180 get the same zone at every latitude.
C9_SeamOneZone ==
    (/\ crsPrev # NoCall
     /\ crsPrev.lat = crsCur.lat
     /\ {crsPrev.lon, crsCur.lon} = {-180 * LonRes, 180 * LonRes})
    => ZoneOfId(crsPrev.id) = ZoneOfId(crsCur.id)

\* C10: the zone is floor((lon + 180) / 6) + 1, the id is northern exactly
\* when lat >= 0, a repeated call returns the same id, and a point and its
\* mirror across the equator get the same zone but different ids.
C10_ZoneAndHemisphere ==
    /\ crsCur # NoCall =>
          LET z == ZoneOfId(crsCur.id)
          IN /\ 6 * LonRes * (z - 1) <= crsCur.lon + 180 * LonRes
             /\ crsCur.lon + 180 * LonRes < 6 * LonRes * z
             /\ crsCur.lat >= 0 <=> crsCur.id = 32600 + z
             /\ crsCur.lat < 0 <=> crsCur.id = 32700 + z
    /\ crsPrev # NoCall =>
          /\ (crsPrev.lat = crsCur.lat /\ crsPrev.lon = crsCur.lon)
                => crsPrev.id = crsCur.id
          /\ (crsPrev.lat > 0 /\ crsCur.lat = -crsPrev.lat /\ crsPrev.lon = crsCur.lon)
                => /\ ZoneOfId(crsPrev.id) = ZoneOfId(crsCur.id)
                   /\ crsPrev.id # crsCur.id

\* a northern point on a zone boundary and its southern mirror, both called
C10_Witness ==
    /\ crsPrev # NoCall
    /\ crsPrev.lat > 0 /\ crsCur.lat = -crsPrev.lat /\ crsPrev.lon = crsCur.lon
    /\ crsCur.lon % (6 * LonRes) = 0
    /\ crsPrev.id = crsCur.id - 100

\* the lines of the file that the loop visits and the pattern matches
ParsedLineNos ==
    {k \in (HEADER_LINES + 1)..Len(dofFile.lines) : LINE_RE(dofFile.lines[k])}
\* all lines of the file that the pattern matches
MatchingLineNos == {k \in 1..Len(dofFile.lines) : LINE_RE(dofFile.lines[k])}
ParseReturned == ppc \in {"parsed", "failed"} /\ dofFile.exists

\* C11: parse_dof raises nothing but the zero-rows error, raises it exactly
\* when no line was parsed into a row, and a line that fails the pattern
\* never stops the lines after it from being parsed.
C11_FailsIffNothingParsed ==
    ParseReturned =>
        /\ perr \in {"", "RuntimeError: Parsed 0 obstacles"}
        /\ perr # "" <=> ParsedLineNos = {}
        /\ perr = "" <=> dofRows # <<>>
        /\ perr = "" =>
              \A k \in ParsedLineNos : \E i \in 1..Len(dofRows) : dofRows[i].line_no = k

\* a successful parse in which a non-matching, non-blank line precedes a
\* parsed line
C11_Witness ==
    /\ ppc = "parsed"
    /\ \E j \in (HEADER_LINES + 1)..Len(dofFile.lines), k \in ParsedLineNos :
          /\ j < k
          /\ dofFile.lines[j].kind = "fields" /\ ~LINE_RE(dofFile.lines[j])
          /\ \E i \in 1..Len(dofRows) : dofRows[i].line_no = k

\* C17 as stated: every matching line of the input, the first lines included,
\* yields exactly one row, so there are as many rows as matching lines.
C17_EveryMatchingLineParsed ==
    (ParseReturned /\ MatchingLineNos # {}) =>
        /\ perr = ""
        /\ Len(dofRows) = Cardinality(MatchingLineNos)
        /\ \A k \in MatchingLineNos : \E i \in 1..Len(dofRows) : dofRows[i].line_no = k

\* C17 amended: every matching line after the first four lines yields exactly
\* one row, rows stand in line order, and no other line yields a row.
C17_MatchingLinesAfterHeaderParsed ==
    ParseReturned =>
        /\ Len(dofRows) = Cardinality(ParsedLineNos)
        /\ {dofRows[i].line_no : i \in 1..Len(dofRows)} = ParsedLineNos
        /\ \A i \in 1..Len(dofRows), j \in 1..Len(dofRows) :
              i < j => dofRows[i].line_no < dofRows[j].line_no
        /\ \A i \in 1..Len(dofRows) :
              dofRows[i].oas = dofFile.lines[dofRows[i].line_no].oas

\* a parse of a file with a matching line among the first four lines and two
\* matching lines after them
C17_Witness ==
    /\ ppc = "parsed" /\ Len(dofRows) = 2
    /\ \E k \in 1..HEADER_LINES : k \in MatchingLineNos

\* rows of the input at or above the height threshold
TallRows == {k \in 1..Len(dofGeo.rows) : dofGeo.rows[k].agl_ft >= 218}
\* those of them that lie in the area of interest
TallRowsInAoi == {k \in TallRows : InAoi(dofGeo.rows[k].c)}
\* the buffers the latest run produced
Produced == IF berr = "" THEN bufFile.rows ELSE <<>>
PreprocessRan == bpc \in {"buffered", "crashed"} /\ dofGeo.hasAgl

\* the buffers correspond one-to-one, with the same oas, to the rows in S
OneToOne(S) ==
    /\ Len(Produced) = Cardinality(S)
    /\ {Produced[i].src : i \in 1..Len(Produced)} = S
    /\ \A i \in 1..Len(Produced) : Produced[i].oas = dofGeo.rows[Produced[i].src].oas

\* C12 as stated: the buffers correspond one-to-one to the input records with
\* agl_ft >= 218, each carrying its record's oas.
C12_BuffersMatchTallRecords == PreprocessRan => OneToOne(TallRows)

\* C12 amended: the buffers correspond one-to-one to the input records inside
\* the area of interest with agl_ft >= 218, each carrying its record's oas.
C12_BuffersMatchTallRecordsInAoi == PreprocessRan => OneToOne(TallRowsInAoi)

\* a run that buffered a record of exactly 218 ft inside the area of interest
\* and produced nothing for a taller record outside it
C12_Witness ==
    /\ bpc = "buffered" /\ Len(dofGeo.rows) = 2 /\ Len(bufFile.rows) = 1
    /\ dofGeo.rows[bufFile.rows[1].src].agl_ft = 218
    /\ \E k \in 1..2 : dofGeo.rows[k].agl_ft > 218 /\ ~InAoi(dofGeo.rows[k].c)

\* C16: a leg flagged with the earlier, smaller BUFFER_M is flagged with the
\* later, larger one (same records, same flights).
C16_FlagsGrowWithBuffer ==
    (bpc = "flagged" /\ prevRun # NoRun /\ prevRun.buffer_m <= buffer_m)
        => prevRun.legFlags \subseteq legFlags

\* two runs where the larger buffer flags a leg more than the smaller, which
\* flagged one already
C16_Witness ==
    /\ bpc = "flagged" /\ prevRun # NoRun /\ prevRun.buffer_m < buffer_m
    /\ prevRun.legFlags # {}
    /\ prevRun.legFlags # legFlags

Roles == {"hub", "merchant", "customer"}
\* the rows of one role in a create_pois result, in order
RoleRows(out, role) == SelectSeq(out.rows, LAMBDA row : row.poi_type = role)
\* the cells and names chosen for one role
Selection(out, role) ==
    [i \in 1..Len(RoleRows(out, role)) |->
        <<RoleRows(out, role)[i].cell_id, RoleRows(out, role)[i].poi_name>>]
CountsNonNegative(cn) == \A role \in Roles : cn[role] >= 0

\* C13: with non-negative counts create_pois raises nothing and returns, per
\* role, exactly min(n, M) POIs from pairwise different cells.
C13_MinOfCountAndCellsPerRole ==
    (qpc \in {"placed", "again"} /\ CountsNonNegative(poiCounts)) =>
        /\ poiOut.err = ""
        /\ \A role \in Roles :
              LET rows == RoleRows(poiOut, role)
              IN /\ Len(rows) = Min(poiCounts[role], Len(poiGrid))
                 /\ \A i, j \in 1..Len(rows) :
                       i # j => rows[i].cell_id # rows[j].cell_id

\* a call asking for more hubs than there are cells, with one cell chosen for
\* two roles
C13_Witness ==
    /\ qpc = "placed" /\ poiOut.err = ""
    /\ poiCounts.hub > Len(poiGrid)
    /\ Len(RoleRows(poiOut, "hub")) = Len(poiGrid)
    /\ \E i, j \in 1..Len(poiOut.rows) :
          /\ poiOut.rows[i].poi_type # poiOut.rows[j].poi_type
          /\ poiOut.rows[i].cell_id = poiOut.rows[j].cell_id

\* C14: two calls on the same grid return the same POIs when the counts are
\* the same, and the same cells and names for every role whose count is the
\* same, whatever was drawn from the module-level generator in between.
C14_PlacementDeterministic ==
    qpc = "again" =>
        /\ poiCounts = poiPrev.counts => poiOut = poiPrev.out
        /\ (poiOut.err = "" /\ poiPrev.out.err = "") =>
              \A role \in Roles :
                 poiCounts[role] = poiPrev.counts[role] =>
                    Selection(poiOut, role) = Selection(poiPrev.out, role)

\* two calls with other draws before and between them, the same merchant
\* count and different hub counts
C14_Witness ==
    /\ qpc = "again" /\ globalDraws >= 2
    /\ poiOut.err = "" /\ poiPrev.out.err = ""
    /\ poiCounts.merchant = poiPrev.counts.merchant /\ poiCounts.merchant > 0
    /\ poiCounts.hub # poiPrev.counts.hub
    /\ Len(poiGrid) > 1

\* the POI file has a row of the role (type compared as load_pois compares it)
FileHasRole(t) ==
    \E k \in 1..Len(poiFile.rows) : StripLower(poiFile.rows[k].poi_type) = t
FileComplete ==
    /\ poiFile.exists
    /\ POI_REQUIRED_COLS \subseteq poiFile.cols
    /\ \A t \in Roles : FileHasRole(t)
GenerationStarted == fpc \in {"loop", "done"} \/ flights # <<>> \/ ferr = "IndexError"

\* C15: generation starts only after a POI file with every required column
\* and every role was loaded; otherwise loading fails and no flight exists.
\* Once it starts, every role list is non-empty and every flight goes from a
\* merchant to a customer and recovers at a hub.
C15_GenerationNeedsCompletePois ==
    /\ ~FileComplete => (fpc \in {"start", "failed"} /\ flights = <<>> /\ ferr # "IndexError")
    /\ (fpc = "failed" /\ ~FileComplete) => ferr # ""
    /\ GenerationStarted =>
          /\ FileComplete
          /\ pois.merchants # <<>> /\ pois.customers # <<>> /\ pois.hubs # <<>>
          /\ \A i \in 1..Len(flights) :
                /\ flights[i].origin_poi.poi_type = "merchant"
                /\ flights[i].destination_poi.poi_type = "customer"
                /\ flights[i].recovery_poi.poi_type = "hub"

\* a file without a hub row failed to load and produced no flight
C15_Witness ==
    /\ fpc = "failed" /\ ferr = "ValueError: No hub POIs" /\ flights = <<>>
    /\ poiFile.exists /\ FileHasRole("merchant") /\ FileHasRole("customer")
    /\ ~FileHasRole("hub")

====
